---- MODULE Spec2Model ----
(***************************************************************************)
(* Model of src/main.py: the contact-submission flow                       *)
(* (validate -> persist -> best-effort notify -> respond), the WhatsApp    *)
(* notifier send_whatsapp_message, and the diagnostics handler             *)
(* test_database.                                                          *)
(*                                                                         *)
(* Python values are modelled as follows.  A str is a TLA+ string, so      *)
(* len, + and slicing are Len, \o and SubSeq.  A value that may be None    *)
(* (or a JSON value of another type) is a pair <<tag, value>>.  A local    *)
(* variable that may be unbound is a sequence of length 0 or 1.  The       *)
(* emoji that prefix the diagnostics strings are left out of the string    *)
(* literals.                                                               *)
(***************************************************************************)
EXTENDS Integers, Sequences, FiniteSets, TLC

VARIABLES
    config,       \* module-level TWILIO_* / OWNER_* values, read once at import
    handler,      \* which endpoint is serving the current request
    pc,           \* position of the current request
    request,      \* JSON body of POST /api/contact, as received
    payload,      \* the parsed ContactIn (unbound before validation)
    msg,          \* the ContactMessage built at line 110
    dbCalls,      \* number of create_document calls made by this request
    dbArg,        \* arguments of the create_document call
    dbResult,     \* what create_document did: returned an id or raised
    body,         \* notification text built at lines 117-123
    notifyCalls,  \* number of send_whatsapp_message calls made by this request
    posts,        \* number of requests.post calls made by this request
    httpReq,      \* arguments of the requests.post call
    httpResult,   \* what requests.post did: a status code or an exception
    notifyRet,    \* what send_whatsapp_message did: returned a bool or raised
    probe,        \* what the database and the environment did to GET /test
    response      \* the HTTP response of the current request

vars == <<config, handler, pc, request, payload, msg, dbCalls, dbArg, dbResult,
          body, notifyCalls, posts, httpReq, httpResult, notifyRet, probe,
          response>>

----------------------------------------------------------------------------
(* Bounds of the model *)

\* how far past a truncation limit the sampled texts and lists go
MaxOver == 2

----------------------------------------------------------------------------
(* Program constants *)

MessageLimit == 500
DetailLimit == 120
DiagLimit == 50
CollectionLimit == 10
PostTimeout == 10

----------------------------------------------------------------------------
(* Python values *)

None == <<"none", "">>
Str(s) == <<"str", s>>
Num(s) == <<"num", s>>

\* bool(v) for a value that is None or a str
Truthy(v) == v[1] = "str" /\ v[2] # ""

Min(a, b) == IF a < b THEN a ELSE b

\* s[:n]
Slice(s, n) == SubSeq(s, 1, Min(Len(s), n))

Letter(i) == SubSeq("abcdefg", (i % 7) + 1, (i % 7) + 1)

\* the characters number a to b of the sampled texts
RECURSIVE TextRange(_, _)
TextRange(a, b) ==
    IF a > b THEN ""
    ELSE IF a = b THEN Letter(a)
    ELSE TextRange(a, (a + b) \div 2) \o TextRange(((a + b) \div 2) + 1, b)

\* a text of n characters whose characters depend on their position
Text(n) == TextRange(1, n)

\* lengths below, at and above a limit
LengthsAround(limit) == {0, 1} \cup ((limit - 1) .. (limit + MaxOver))

----------------------------------------------------------------------------
(* Inputs: the environment, the request bodies, the collaborators' outcomes *)

Fields == {"name", "phone", "email", "message"}

\* os.getenv at lines 10-14: the flag is a bool, the others are None or a str
Configs ==
    [enabled : BOOLEAN,
     sid     : {None, Str(""), Str("AC1")},
     token   : {None, Str("tok")},
     from    : {Str(""), Str("whatsapp:+14155238886")},
     to      : {None, Str("whatsapp:+919782017257")}]

\* JSON bodies: every field may be absent, null, of a wrong type, or a string
FullBodies ==
    [name    : {Num("5"), Str(""), Str("Ana")},
     phone   : {Str(""), Str("555-1")},
     email   : {None, Str(""), Str("ana@example.org")},
     message : {None} \cup {Str(Text(n)) : n \in LengthsAround(MessageLimit)}]

Bodies == {[f \in D |-> b[f]] : b \in FullBodies, D \in SUBSET Fields}

\* create_document returns the id of the inserted document or raises
DocIds == {"id1", "id2"}
StorageErrors == {Text(n) : n \in LengthsAround(DetailLimit)}

\* requests.post returns a response with a status code or raises
StatusCodes == {200, 201, 204, 400, 500}
TransportErrors == {"timeout", "dns", "refused"}

NoHttpResult == [kind |-> "none", status |-> 0, exc |-> ""]
NoDbResult == [kind |-> "none", id |-> "", exc |-> ""]
NoRet == [kind |-> "none", value |-> FALSE]
NoResponse == [status |-> 0, body |-> <<>>]
NoProbe == [resolve |-> "none", err |-> "", name |-> None, enum |-> "none",
            cols |-> <<>>, url |-> None, dbname |-> None]

----------------------------------------------------------------------------
(* class ContactIn, and FastAPI's parsing of the body into it *)

\* a required str field is present and a JSON string
RequiredOk(req, f) == f \in DOMAIN req /\ req[f][1] = "str"

\* an Optional[str] field is absent, null or a JSON string
OptionalOk(req, f) == f \in DOMAIN req => req[f][1] \in {"str", "none"}

ContactInOk(req) ==
    /\ RequiredOk(req, "name")
    /\ RequiredOk(req, "phone")
    /\ OptionalOk(req, "email")
    /\ RequiredOk(req, "message")

\* the parsed model: strings for the required fields, email defaults to None
ContactIn(req) ==
    [name    |-> req["name"][2],
     phone   |-> req["phone"][2],
     email   |-> IF "email" \in DOMAIN req THEN req["email"] ELSE None,
     message |-> req["message"][2]]

\* ContactMessage(**payload.model_dump()): the schema keeps the four fields
ContactMessage(p) ==
    [name |-> p.name, phone |-> p.phone, email |-> p.email, message |-> p.message]

\* the schema describes name and phone as non-empty text: it may reject these
ContactMessageMayRaise(p) == p.name = "" \/ p.phone = ""

----------------------------------------------------------------------------
(* send_whatsapp_message *)

\* the values are only tested against None
SendAllowedNotNone(cfg) ==
    /\ cfg.enabled
    /\ \A v \in {cfg.sid, cfg.token, cfg.from, cfg.to} : v # None

\* lines 82-86: the flag is on and all(required) holds
SendAllowed(cfg) ==
    /\ cfg.enabled
    /\ \A v \in {cfg.sid, cfg.token, cfg.from, cfg.to} : Truthy(v)

\* lines 88-95: the arguments of requests.post
PostArgs(cfg, text) ==
    [url     |-> "https://api.twilio.com/2010-04-01/Accounts/" \o cfg.sid[2]
                 \o "/Messages.json",
     data    |-> [From |-> cfg.from[2], To |-> cfg.to[2], Body |-> text],
     auth    |-> <<cfg.sid[2], cfg.token[2]>>,
     timeout |-> PostTimeout]

\* every 2xx status counts as delivered
StatusIsAny2xx(code) == code >= 200 /\ code < 300

\* line 96
StatusIsSuccess(code) == code \in {200, 201}

\* lines 94-98: the value returned once requests.post has returned or raised
AfterPost(result) ==
    IF result.kind = "status"
    THEN [kind |-> "return", value |-> StatusIsSuccess(result.status)]
    ELSE [kind |-> "return", value |-> FALSE]

----------------------------------------------------------------------------
(* create_contact *)

\* msg.email or '-'
EmailOrDash(m) == IF Truthy(m.email) THEN m.email[2] ELSE "-"

\* the message goes into the body uncut
MessagePartUncut(m) == m.message

\* msg.message[:500]
MessagePart(m) == Slice(m.message, MessageLimit)

\* lines 117-123, up to the message
BodyHeader(m) ==
    "New Contact Message\n"
    \o "Name: " \o m.name \o "\n"
    \o "Phone: " \o m.phone \o "\n"
    \o "Email: " \o EmailOrDash(m) \o "\n"
    \o "Message: "

\* lines 117-123
Body(m) == BodyHeader(m) \o MessagePart(m)

\* line 112: what is handed to create_document
PersistArgs(m) == [collection |-> "contactmessage", doc |-> m]

\* the error text goes into the detail uncut
StorageErrorResponseUncut(e) ==
    [status |-> 500, body |-> [detail |-> "Database error: " \o e]]

\* line 114
StorageErrorResponse(e) ==
    [status |-> 500,
     body   |-> [detail |-> "Database error: " \o Slice(e, DetailLimit)]]

\* the acknowledgment reports what the notifier returned
SuccessResponseOfNotifier(id, ret) == [status |-> 200, body |-> [ok |-> ret, id |-> id]]

\* line 126; ret, the value of the call at line 124, is dropped
SuccessResponse(id, ret) == [status |-> 200, body |-> [ok |-> TRUE, id |-> id]]

\* FastAPI's answer to a body that does not parse into ContactIn
ValidationResponse == [status |-> 422, body |-> [detail |-> "validation error"]]

\* FastAPI's answer to an exception the handler does not catch
UnhandledResponse == [status |-> 500, body |-> [detail |-> "Internal Server Error"]]

\* POST /api/contact arrives with some JSON body
Receive ==
    /\ pc = "idle"
    /\ \E b \in Bodies : request' = <<b>>
    /\ handler' = "contact"
    /\ pc' = "received"
    /\ UNCHANGED <<config, payload, msg, dbCalls, dbArg, dbResult, body,
                   notifyCalls, posts, httpReq, httpResult, notifyRet, probe,
                   response>>

\* a body without a message is given the empty message
WithDefaultMessage(req) ==
    [f \in DOMAIN req \cup {"message"} |->
        IF f \in DOMAIN req THEN req[f] ELSE Str("")]

\* message is declared with a default, so a body without it parses
ValidateDefaultMessage ==
    /\ pc = "received"
    /\ IF ContactInOk(WithDefaultMessage(request[1]))
       THEN /\ payload' = <<ContactIn(WithDefaultMessage(request[1]))>>
            /\ pc' = "construct"
            /\ UNCHANGED response
       ELSE /\ response' = ValidationResponse
            /\ pc' = "done"
            /\ UNCHANGED payload
    /\ UNCHANGED <<config, handler, request, msg, dbCalls, dbArg, dbResult,
                   body, notifyCalls, posts, httpReq, httpResult, notifyRet,
                   probe>>

\* line 108: the body is parsed into payload: ContactIn, or the request is
\* rejected before create_contact runs
Validate ==
    /\ pc = "received"
    /\ IF ContactInOk(request[1])
       THEN /\ payload' = <<ContactIn(request[1])>>
            /\ pc' = "construct"
            /\ UNCHANGED response
       ELSE /\ response' = ValidationResponse
            /\ pc' = "done"
            /\ UNCHANGED payload
    /\ UNCHANGED <<config, handler, request, msg, dbCalls, dbArg, dbResult,
                   body, notifyCalls, posts, httpReq, httpResult, notifyRet,
                   probe>>

\* line 110
Construct ==
    /\ pc = "construct"
    /\ \E raises \in IF ContactMessageMayRaise(payload[1]) THEN BOOLEAN ELSE {FALSE} :
         IF raises
         THEN /\ response' = UnhandledResponse
              /\ pc' = "done"
              /\ UNCHANGED msg
         ELSE /\ msg' = <<ContactMessage(payload[1])>>
              /\ pc' = "persist"
              /\ UNCHANGED response
    /\ UNCHANGED <<config, handler, request, payload, dbCalls, dbArg, dbResult,
                   body, notifyCalls, posts, httpReq, httpResult, notifyRet,
                   probe>>

\* the storage error is swallowed and the handler carries on
AfterPersistCarryOn(result) == "notify"

\* lines 111-114: where create_contact goes once create_document has
\* returned or raised
AfterPersist(result) == IF result.kind = "ok" THEN "notify" ELSE "done"

\* a failed insert is tried a second time
PersistRetry ==
    /\ pc = "persist"
    /\ dbArg' = <<PersistArgs(msg[1])>>
    /\ \E result \in [kind : {"ok"}, id : DocIds, exc : {""}]
                     \cup [kind : {"raise"}, id : {""}, exc : StorageErrors] :
         /\ dbResult' = result
         /\ dbCalls' = IF result.kind = "ok" THEN dbCalls + 1 ELSE dbCalls + 2
         /\ pc' = AfterPersist(result)
         /\ response' = IF result.kind = "ok" THEN response
                        ELSE StorageErrorResponse(result.exc)
    /\ UNCHANGED <<config, handler, request, payload, msg, body, notifyCalls,
                   posts, httpReq, httpResult, notifyRet, probe>>

\* lines 111-114
Persist ==
    /\ pc = "persist"
    /\ dbCalls' = dbCalls + 1
    /\ dbArg' = <<PersistArgs(msg[1])>>
    /\ \E result \in [kind : {"ok"}, id : DocIds, exc : {""}]
                     \cup [kind : {"raise"}, id : {""}, exc : StorageErrors] :
         /\ dbResult' = result
         /\ pc' = AfterPersist(result)
         /\ response' = IF result.kind = "ok" THEN response
                        ELSE StorageErrorResponse(result.exc)
    /\ UNCHANGED <<config, handler, request, payload, msg, body, notifyCalls,
                   posts, httpReq, httpResult, notifyRet, probe>>

\* lines 117-124 and 82-95: the body is built and send_whatsapp_message is
\* called; it returns False at once or issues the POST
Notify ==
    /\ pc = "notify"
    /\ body' = <<Body(msg[1])>>
    /\ notifyCalls' = notifyCalls + 1
    /\ IF SendAllowed(config)
       THEN /\ posts' = posts + 1
            /\ httpReq' = <<PostArgs(config, Body(msg[1]))>>
            /\ pc' = "posting"
            /\ UNCHANGED notifyRet
       ELSE /\ notifyRet' = [kind |-> "return", value |-> FALSE]
            /\ pc' = "respond"
            /\ UNCHANGED <<posts, httpReq>>
    /\ UNCHANGED <<config, handler, request, payload, msg, dbCalls, dbArg,
                   dbResult, httpResult, probe, response>>

\* lines 95-98: requests.post returns or raises, send_whatsapp_message returns
PostReturns ==
    /\ pc = "posting"
    /\ \E result \in [kind : {"status"}, status : StatusCodes, exc : {""}]
                     \cup [kind : {"raise"}, status : {0}, exc : TransportErrors] :
         /\ httpResult' = result
         /\ notifyRet' = AfterPost(result)
    /\ pc' = "respond"
    /\ UNCHANGED <<config, handler, request, payload, msg, dbCalls, dbArg,
                   dbResult, body, notifyCalls, posts, httpReq, probe, response>>

\* lines 124-126: back in create_contact after send_whatsapp_message
Respond ==
    /\ pc = "respond"
    /\ response' = IF notifyRet.kind = "raise" THEN UnhandledResponse
                   ELSE SuccessResponse(dbResult.id, notifyRet.value)
    /\ pc' = "done"
    /\ UNCHANGED <<config, handler, request, payload, msg, dbCalls, dbArg,
                   dbResult, body, notifyCalls, posts, httpReq, httpResult,
                   notifyRet, probe>>

\* the response is sent; the request's locals are gone
Finish ==
    /\ pc = "done"
    /\ pc' = "idle"
    /\ handler' = "none"
    /\ request' = <<>>
    /\ payload' = <<>>
    /\ msg' = <<>>
    /\ dbCalls' = 0
    /\ dbArg' = <<>>
    /\ dbResult' = NoDbResult
    /\ body' = <<>>
    /\ notifyCalls' = 0
    /\ posts' = 0
    /\ httpReq' = <<>>
    /\ httpResult' = NoHttpResult
    /\ notifyRet' = NoRet
    /\ probe' = NoProbe
    /\ response' = NoResponse
    /\ UNCHANGED config

----------------------------------------------------------------------------
(* test_database *)

\* the names a database may list
CollectionNames(n) == [i \in 1..n |-> "c" \o ToString(i)]

DiagErrors == {Text(n) : n \in LengthsAround(DiagLimit)}

\* os.getenv("DATABASE_URL"), os.getenv("DATABASE_NAME")
EnvProbes == [url : {None, Str(""), Str("mongodb://db")}, dbname : {None, Str("appdb")}]

\* what "from database import db" and db.list_collection_names() do
DbProbes ==
    [resolve : {"import_error", "null"}, err : {""}, name : {None},
     enum : {"none"}, cols : {<<>>}]
    \cup [resolve : {"error"}, err : DiagErrors, name : {None},
          enum : {"none"}, cols : {<<>>}]
    \cup [resolve : {"live"}, err : {""}, name : {None, Str("appdb")},
          enum : {"ok"},
          cols : {CollectionNames(n) : n \in LengthsAround(CollectionLimit)}]
    \cup [resolve : {"live"}, err : DiagErrors, name : {None, Str("appdb")},
          enum : {"error"}, cols : {<<>>}]

Probes ==
    {[resolve |-> d.resolve, err |-> d.err, name |-> d.name, enum |-> d.enum,
      cols |-> d.cols, url |-> e.url, dbname |-> e.dbname] :
        d \in DbProbes, e \in EnvProbes}

\* lines 37-44
InitialDoc ==
    [backend           |-> "Running",
     database          |-> "Not Available",
     database_url      |-> None,
     database_name     |-> None,
     connection_status |-> "Not Connected",
     collections       |-> <<>>]

\* only the import failure is caught
OuterCaughtImportOnly(kind) == kind = "import_error"

\* lines 66 and 68: the exceptions of the outer try that a clause catches
OuterCaught(kind) == kind \in {"import_error", "error"}

\* every collection name is listed
EnumerateAll(doc, p) ==
    IF p.enum = "ok"
    THEN [doc EXCEPT !.collections = p.cols, !.database = "Connected & Working"]
    ELSE [doc EXCEPT !.database = "Connected but Error: " \o Slice(p.err, DiagLimit)]

\* lines 57-62: the enumeration of the collections of a live handle
Enumerate(doc, p) ==
    IF p.enum = "ok"
    THEN [doc EXCEPT !.collections = SubSeq(p.cols, 1, Min(Len(p.cols), CollectionLimit)),
                     !.database = "Connected & Working"]
    ELSE [doc EXCEPT !.database = "Connected but Error: " \o Slice(p.err, DiagLimit)]

\* lines 50-64: the handle resolved
Resolved(doc, p) ==
    IF p.resolve = "live"
    THEN Enumerate([doc EXCEPT !.database = "Available",
                               !.database_url = Str("Configured"),
                               !.database_name =
                                   IF p.name # None THEN p.name ELSE Str("Connected"),
                               !.connection_status = "Connected"], p)
    ELSE [doc EXCEPT !.database = "Available but not initialized"]

\* lines 66-69: the handle did not resolve
NotResolved(doc, p) ==
    IF p.resolve = "import_error"
    THEN [doc EXCEPT !.database =
              "Database module not found (run enable-database first)"]
    ELSE [doc EXCEPT !.database = "Error: " \o Slice(p.err, DiagLimit)]

\* lines 72-74
EnvFlags(doc, p) ==
    [doc EXCEPT !.database_url = Str(IF Truthy(p.url) THEN "Set" ELSE "Not Set"),
                !.database_name = Str(IF Truthy(p.dbname) THEN "Set" ELSE "Not Set")]

\* lines 35-76
TestDatabaseResponse(p) ==
    IF p.resolve \in {"null", "live"}
    THEN [status |-> 200, body |-> EnvFlags(Resolved(InitialDoc, p), p)]
    ELSE IF OuterCaught(p.resolve)
    THEN [status |-> 200, body |-> EnvFlags(NotResolved(InitialDoc, p), p)]
    ELSE UnhandledResponse

\* GET /test
TestDatabase ==
    /\ pc = "idle"
    /\ \E p \in Probes :
         /\ probe' = p
         /\ response' = TestDatabaseResponse(p)
    /\ handler' = "test"
    /\ pc' = "done"
    /\ UNCHANGED <<config, request, payload, msg, dbCalls, dbArg, dbResult,
                   body, notifyCalls, posts, httpReq, httpResult, notifyRet>>

----------------------------------------------------------------------------

Init ==
    /\ config \in Configs
    /\ handler = "none"
    /\ pc = "idle"
    /\ request = <<>>
    /\ payload = <<>>
    /\ msg = <<>>
    /\ dbCalls = 0
    /\ dbArg = <<>>
    /\ dbResult = NoDbResult
    /\ body = <<>>
    /\ notifyCalls = 0
    /\ posts = 0
    /\ httpReq = <<>>
    /\ httpResult = NoHttpResult
    /\ notifyRet = NoRet
    /\ probe = NoProbe
    /\ response = NoResponse

Next ==
    \/ Receive
    \/ Validate
    \/ Construct
    \/ Persist
    \/ Notify
    \/ PostReturns
    \/ Respond
    \/ TestDatabase
    \/ Finish

Spec == Init /\ [][Next]_vars

----------------------------------------------------------------------------
(* Properties *)

\* s starts with pre
HasPrefix(s, pre) == Len(s) >= Len(pre) /\ SubSeq(s, 1, Len(pre)) = pre

\* the first n characters of s, all of s when it is shorter
FirstChars(s, n) == IF Len(s) <= n THEN s ELSE SubSeq(s, 1, n)

RequiredMissing(req) == \E f \in {"name", "phone", "message"} : f \notin DOMAIN req

ConfigComplete ==
    /\ config.enabled
    /\ config.sid \notin {None, Str("")}
    /\ config.token \notin {None, Str("")}
    /\ config.from \notin {None, Str("")}
    /\ config.to \notin {None, Str("")}

\* C1: in create_contact a notification is attempted only once
\* create_document has returned for the same request, never after a failed
\* validation or a raising create_document, and while the notification runs
\* and after it the persistence stays done exactly once, with the same
\* arguments and result.
C1_NotifyOnlyAfterPersist ==
    [][/\ notifyCalls' > notifyCalls =>
            /\ ContactInOk(request[1])
            /\ dbCalls = 1
            /\ dbResult.kind = "ok"
       /\ posts' > posts => dbResult.kind = "ok"
       /\ notifyCalls > 0 /\ pc' # "idle" =>
            /\ dbCalls' = 1
            /\ dbArg' = dbArg
            /\ dbResult' = dbResult
            /\ dbResult.kind = "ok"]_vars

C1_Witness ==
    /\ handler = "contact"
    /\ notifyCalls = 1
    /\ posts = 1
    /\ notifyRet.kind = "return"
    /\ dbResult.kind = "ok"

\* C2: when the payload is valid and create_document returns an id,
\* create_contact answers 200 {ok: true, id: that id}, whatever the notifier
\* did (returned true, returned false, was skipped, hit a transport failure).
C2_ResponseIgnoresNotifier ==
    (handler = "contact" /\ pc = "done" /\ dbResult.kind = "ok") =>
        /\ response.status = 200
        /\ DOMAIN response.body = {"ok", "id"}
        /\ response.body.ok = TRUE
        /\ response.body.id = dbResult.id

C2_Witness ==
    /\ handler = "contact"
    /\ pc = "done"
    /\ dbResult.kind = "ok"
    /\ httpResult.kind = "raise"
    /\ notifyRet.value = FALSE
    /\ response.status = 200

\* C3: a body without name, phone or message is rejected with a client
\* error before any side effect: no ContactMessage is built, create_document
\* is not called, the notifier is not called.
C3_MissingFieldRejected ==
    (handler = "contact" /\ pc # "received" /\ RequiredMissing(request[1])) =>
        /\ pc = "done"
        /\ response.status \in 400..499
        /\ payload = <<>>
        /\ msg = <<>>
        /\ dbCalls = 0
        /\ notifyCalls = 0
        /\ posts = 0

C3_Witness ==
    /\ handler = "contact"
    /\ pc = "done"
    /\ DOMAIN request[1] = {"name", "phone", "email"}
    /\ request[1]["name"] = Str("Ana")
    /\ response.status = 422

\* C4: when create_document raises, the request ends with a 500 response and
\* not with the acknowledgment; create_document is called once per request
\* that reaches it, never a second time, and nothing follows the failure.
C4_StorageFailureIs500 ==
    /\ dbCalls <= 1
    /\ (dbResult.kind # "none") <=> (dbCalls = 1)
    /\ dbResult.kind = "raise" =>
          /\ pc = "done"
          /\ response.status = 500
          /\ "ok" \notin DOMAIN response.body
          /\ notifyCalls = 0
          /\ posts = 0

C4_Witness ==
    /\ handler = "contact"
    /\ pc = "done"
    /\ dbResult.kind = "raise"
    /\ dbCalls = 1
    /\ response.status = 500

C6_PostOnlyWhenConfigured ==
    /\ posts <= 1
    /\ posts <= notifyCalls
    /\ posts > 0 => ConfigComplete
    /\ (notifyCalls > 0 /\ ~ConfigComplete) =>
          /\ posts = 0
          /\ httpReq = <<>>
          /\ httpResult.kind = "none"
          /\ notifyRet = [kind |-> "return", value |-> FALSE]

C6_Witness ==
    /\ notifyCalls = 1
    /\ config.enabled
    /\ config.sid = Str("")
    /\ config.token # None
    /\ config.from # Str("")
    /\ config.to # None
    /\ posts = 0
    /\ notifyRet.kind = "return"

\* C7: send_whatsapp_message never raises; it returns true exactly when a
\* POST was issued and answered with status 200 or 201; any other status
\* and any transport failure give false.
C7_TrueIffDelivered ==
    /\ notifyRet.kind # "raise"
    /\ notifyRet.kind = "return" =>
          (notifyRet.value <=>
              /\ posts = 1
              /\ httpResult.kind = "status"
              /\ httpResult.status \in {200, 201})

C7_Witness ==
    /\ notifyRet.kind = "return"
    /\ httpResult.kind = "status"
    /\ httpResult.status = 204
    /\ notifyRet.value = FALSE

\* C8: the message handed to create_document is the full message of the
\* request; the message part of the notification body is its first 500
\* characters: the whole message when it has at most 500, exactly 500
\* otherwise.
C8_StoredFullNotifiedCut ==
    /\ dbCalls = 1 =>
          /\ dbArg[1].doc.message = request[1]["message"][2]
          /\ Len(dbArg[1].doc.message) = Len(request[1]["message"][2])
    /\ notifyCalls = 1 =>
          /\ body[1] = BodyHeader(msg[1]) \o FirstChars(request[1]["message"][2], 500)
          /\ Len(body[1]) - Len(BodyHeader(msg[1])) <= 500
    /\ posts = 1 => httpReq[1].data.Body = body[1]

C8_Witness ==
    /\ notifyCalls = 1
    /\ posts = 1
    /\ Len(request[1]["message"][2]) > 500
    /\ Len(dbArg[1].doc.message) > 500
    /\ Len(body[1]) - Len(BodyHeader(msg[1])) = 500

\* C9: test_database never raises: whatever the resolution of the handle
\* and the enumeration did, it answers 200 with a document whose backend
\* field says running, and a failure shows only as the text of the database
\* field.
C9_DiagnosticsNeverRaises ==
    (handler = "test" /\ pc = "done") =>
        /\ response.status = 200
        /\ response.body.backend = "Running"
        /\ (probe.resolve \in {"import_error", "error"} \/ probe.enum = "error") =>
              \/ HasPrefix(response.body.database, "Database module not found")
              \/ HasPrefix(response.body.database, "Error: ")
              \/ HasPrefix(response.body.database, "Connected but Error: ")

C9_Witness ==
    /\ handler = "test"
    /\ pc = "done"
    /\ probe.resolve = "error"
    /\ response.status = 200

\* what C10 says of a null handle, of a listing and of a failed listing
C10_HandleCases ==
    /\ probe.resolve = "null" =>
          /\ response.body.database = "Available but not initialized"
          /\ response.body.connection_status = "Not Connected"
    /\ (probe.resolve = "live" /\ probe.enum = "ok") =>
          /\ response.body.database = "Connected & Working"
          /\ Len(response.body.collections) <= 10
          /\ Len(response.body.collections) <= Len(probe.cols)
          /\ Len(probe.cols) <= 10 => response.body.collections = probe.cols
          /\ \A i \in 1..Len(response.body.collections) :
                response.body.collections[i] = probe.cols[i]
    /\ (probe.resolve = "live" /\ probe.enum = "error") =>
          /\ response.body.connection_status = "Connected"
          /\ response.body.database =
                "Connected but Error: " \o FirstChars(probe.err, 50)
          /\ response.body.collections = <<>>

\* C10 as stated: whenever resolving the handle fails the database status
\* says "not found"; a null handle gives "available but not initialized" and
\* not connected; a listing gives "connected & working" and at most the
\* first 10 names; a failed listing keeps "connected", embeds at most 50
\* characters of the error and lists nothing.
C10_AsStated ==
    (handler = "test" /\ pc = "done") =>
        /\ probe.resolve \in {"import_error", "error"} =>
              HasPrefix(response.body.database, "Database module not found")
        /\ C10_HandleCases

\* C10 amended: an import failure gives "not found"; any other exception
\* of the resolution gives "Error: " and at most 50 characters of the error;
\* the other cases are as stated.
C10_StatusByHandle ==
    (handler = "test" /\ pc = "done") =>
        /\ probe.resolve = "import_error" =>
              HasPrefix(response.body.database, "Database module not found")
        /\ probe.resolve = "error" =>
              /\ response.body.database = "Error: " \o FirstChars(probe.err, 50)
              /\ response.body.connection_status = "Not Connected"
              /\ response.body.collections = <<>>
        /\ C10_HandleCases

C10_Witness ==
    /\ handler = "test"
    /\ pc = "done"
    /\ probe.resolve = "live"
    /\ probe.enum = "ok"
    /\ Len(probe.cols) > 10
    /\ Len(response.body.collections) = 10

====
